---------------------------- MODULE Spec2Model ----------------------------
(***************************************************************************)
(* A model of vim-rs: the editor core (src/src/editor.rs, buffer.rs) and   *)
(* the Normal/Insert key interpreter (src/src/event.rs).                   *)
(*                                                                         *)
(* Rows and columns are 0-based as in the source (cr, cc); TLA+ sequences  *)
(* are 1-based, so line cr of the buffer is buffer[cr + 1].                *)
(*                                                                         *)
(* Five specifications are given:                                          *)
(*   Spec        the dispatch loop of Editor::run applied to the editor    *)
(*               built by Editor::new, receiving any action;               *)
(*   SpecAny     the edit handlers (handle_write, handle_backspace,        *)
(*               handle_enter) applied as functions of the Editor value,   *)
(*               started from every Editor value that satisfies the        *)
(*               struct's invariant (at least one line, cursor inside the  *)
(*               buffer), within the bounds;                               *)
(*   SpecInterp  the key listener of event.rs reading keys in Normal mode, *)
(*               with no action received yet;                              *)
(*   SpecSys     the listener thread and the dispatch loop running         *)
(*               concurrently, joined by the mpsc channel and the shared   *)
(*               mode;                                                     *)
(*   SpecSysFair SpecSys with the dispatch loop scheduled fairly.          *)
(***************************************************************************)
EXTENDS Integers, Sequences, FiniteSets, TLC

VARIABLES
    buffer,   \* Editor.buffer.lines : Vec<Vec<char>>
    cr,       \* Editor.cr : u16, cursor row
    cc,       \* Editor.cc : u16, cursor column
    mode,     \* Editor.mode : Arc<Mutex<Mode>>, shared with the listener
    done,     \* the dispatch loop of Editor::run has left its loop
    last,     \* history: the action the dispatch loop applied last
    pre,      \* history: the editor value before that action
    op,       \* event_listener: let mut op : Option<Operator>
    mult,     \* event_listener: let mut mult : u8
    keys,     \* history: the key codes the listener has read, in order
    sent,     \* history: the actions the listener has sent on tx, in order
    chan,     \* the mpsc channel: actions sent and not yet received
    applied,  \* history: the actions the dispatch loop has received, in order
    stale     \* history: keys read in a row under a mode that a queued
              \* ChangeMode is about to replace

edvars == <<buffer, cr, cc, mode, done, last, pre>>
invars == <<op, mult, keys, sent>>
chvars == <<chan, applied, stale>>
vars == <<buffer, cr, cc, mode, done, last, pre, op, mult, keys, sent,
          chan, applied, stale>>

---------------------------------------------------------------------------
(* Bounds of the model. *)

\* The text of the buffer (its characters plus one separator per line
\* break) is at most this long.
MaxText == 5

\* The listener reads at most this many keys.
MaxKeys == 4

\* Width of cc and cr.
U16 == 65536

\* Width of mult.
U8 == 256

---------------------------------------------------------------------------
(* Types of the program. *)

Mode == {"Normal", "Insert"}
Operator == {"Delete", "Yank"}
Motion == {"Up", "Down", "Left", "Right", "Start", "End", "Word"}

\* The repeat counts an action carries in the model.
Counts == {1, 2}

\* The digits and the letters among the characters of the model.
DigitChars == {"0", "1", "2", "3", "4", "5", "6", "7", "8", "9"}
LetterChars == {"a", "d", "i", "q", "w", "x", "y"}

\* char::is_alphanumeric on the characters of the model.
is_alphanumeric(c) == c \in LetterChars \cup DigitChars

\* The characters a Write action carries in the model: a letter, a space,
\* a tab, and one character that is neither.
WriteChars == {"a", " ", "\t", "!"}

\* The values of enum Event.
Event ==
    {[type |-> "Quit"], [type |-> "BackSpace"], [type |-> "Enter"],
     [type |-> "WindowResize", w |-> 80, h |-> 24]}
    \cup {[type |-> "ChangeMode", mode |-> m] : m \in Mode}
    \cup {[type |-> "Write", c |-> c] : c \in WriteChars}
    \cup {[type |-> "Motion", op |-> o, mult |-> n, motion |-> m] :
            o \in {"None"} \cup Operator, n \in Counts, m \in Motion}

NoEvent == [type |-> "None"]

---------------------------------------------------------------------------
(* Vec operations. *)

\* Vec::remove(i), i 0-based.
VecRemove(s, i) == SubSeq(s, 1, i) \o SubSeq(s, i + 2, Len(s))

\* Vec::insert(i, x), i 0-based.
VecInsert(s, i, x) == SubSeq(s, 1, i) \o <<x>> \o SubSeq(s, i + 1, Len(s))

\* Buffer::new.
BufferNew == << <<>> >>

\* The editor value: the fields the handlers read and write.
Ed(l, r, c) == [lines |-> l, cr |-> r, cc |-> c]

---------------------------------------------------------------------------
(* The edit handlers of Editor, as functions of the editor value. *)

\* handle_backspace without the `&& self.cr > 0` of its first test: on the
\* first row the line is removed all the same.
handle_backspace_any_row(e) ==
    LET row == e.lines[e.cr + 1] IN
    IF (row = <<>> \/ e.cc = 0) /\ e.cr = 0
    THEN Ed(VecRemove(e.lines, 0), 0, 0)
    ELSE IF row = <<>> \/ e.cc = 0
    THEN LET ls1 == VecRemove(e.lines, e.cr)
             cr1 == e.cr - 1
             ls2 == [ls1 EXCEPT ![cr1 + 1] = @ \o row]
         IN  Ed(ls2, cr1, Len(ls2[cr1 + 1]) % U16)
    ELSE Ed([e.lines EXCEPT ![e.cr + 1] = VecRemove(row, e.cc - 1)],
            e.cr, e.cc - 1)

handle_backspace(e) ==
    LET row == e.lines[e.cr + 1] IN
    IF (row = <<>> \/ e.cc = 0) /\ e.cr > 0
    THEN LET removed == row
             ls1 == VecRemove(e.lines, e.cr)
             cr1 == e.cr - 1
             ls2 == [ls1 EXCEPT ![cr1 + 1] = @ \o removed]
         IN  Ed(ls2, cr1, Len(ls2[cr1 + 1]) % U16)
    ELSE IF e.cc > 0
    THEN Ed([e.lines EXCEPT ![e.cr + 1] = VecRemove(row, e.cc - 1)],
            e.cr, e.cc - 1)
    ELSE e

\* row.insert(cc, ch); cc += 1, once.
InsertChar(e, ch) ==
    Ed([e.lines EXCEPT ![e.cr + 1] = VecInsert(@, e.cc, ch)],
       e.cr, (e.cc + 1) % U16)

\* handle_write with row.push(ch) in place of row.insert(cc, ch).
PushChar(e, ch) ==
    Ed([e.lines EXCEPT ![e.cr + 1] = Append(@, ch)], e.cr, (e.cc + 1) % U16)

handle_write_push(e, c) ==
    LET e1 == IF c = "\t"
              THEN PushChar(PushChar(PushChar(PushChar(e, " "), " "), " "), " ")
              ELSE e
    IN  IF is_alphanumeric(c) \/ c = " " THEN PushChar(e1, c) ELSE e1

handle_write(e, c) ==
    LET e1 == IF c = "\t"
              THEN InsertChar(InsertChar(InsertChar(InsertChar(e, " "), " "),
                                         " "), " ")
              ELSE e
    IN  IF is_alphanumeric(c) \/ c = " " THEN InsertChar(e1, c) ELSE e1

\* handle_enter without its `self.cc = 0`.
handle_enter_keeps_col(e) ==
    LET row == e.lines[e.cr + 1]
        rhs == SubSeq(row, e.cc + 1, Len(row))
        ls1 == [e.lines EXCEPT ![e.cr + 1] = SubSeq(row, 1, e.cc)]
    IN  Ed(VecInsert(ls1, e.cr + 1, rhs), (e.cr + 1) % U16, e.cc)

\* handle_enter inserting the right part at cr in place of cr + 1.
handle_enter_inserts_before(e) ==
    LET row == e.lines[e.cr + 1]
        rhs == SubSeq(row, e.cc + 1, Len(row))
        ls1 == [e.lines EXCEPT ![e.cr + 1] = SubSeq(row, 1, e.cc)]
    IN  Ed(VecInsert(ls1, e.cr, rhs), (e.cr + 1) % U16, 0)

handle_enter(e) ==
    LET row == e.lines[e.cr + 1]
        rhs == SubSeq(row, e.cc + 1, Len(row))
        ls1 == [e.lines EXCEPT ![e.cr + 1] = SubSeq(row, 1, e.cc)]
    IN  Ed(VecInsert(ls1, e.cr + 1, rhs), (e.cr + 1) % U16, 0)

\* The editor value Editor::handle_action leaves: every action but
\* BackSpace, Enter and Write falls to `_ => {}` or does not touch it.
handle_action(e, ev) ==
    CASE ev.type = "BackSpace" -> handle_backspace(e)
      [] ev.type = "Enter"     -> handle_enter(e)
      [] ev.type = "Write"     -> handle_write(e, ev.c)
      [] OTHER                 -> e

\* handle_action without its ChangeMode arm.
handle_action_mode_ignored(m, ev) == m

\* The mode Editor::handle_action leaves.
handle_action_mode(m, ev) ==
    IF ev.type = "ChangeMode" THEN ev.mode ELSE m

---------------------------------------------------------------------------
(* The dispatch loop. *)

\* Length of the buffer as a text: its characters and its line breaks.
RECURSIVE SumLen(_)
SumLen(ls) == IF ls = <<>> THEN 0 ELSE Len(Head(ls)) + SumLen(Tail(ls))
TextLen(ls) == SumLen(ls) + Len(ls) - 1

\* handle_action returning Ok(false) for Quit as for every other action.
handle_action_never_done(ev) == FALSE

\* Whether Editor::handle_action returns Ok(true): the loop is to end.
handle_action_done(ev) == ev.type = "Quit"

\* The body of the loop of Editor::run for the action ev: handle_action
\* applies it, and the loop ends when it returns true.
Apply(ev) ==
    /\ ~done
    /\ LET e == handle_action(Ed(buffer, cr, cc), ev) IN
       /\ buffer' = e.lines
       /\ cr' = e.cr
       /\ cc' = e.cc
    /\ mode' = handle_action_mode(mode, ev)
    /\ done' = handle_action_done(ev)
    /\ last' = ev
    /\ pre' = Ed(buffer, cr, cc)

\* One turn of the loop of Editor::run with the action ev handed to it
\* directly, while the buffer stays within the bound.
Dispatch(ev) ==
    /\ TextLen(handle_action(Ed(buffer, cr, cc), ev).lines) <= MaxText
    /\ Apply(ev)
    /\ UNCHANGED <<invars, chvars>>

\* std::sync::mpsc::channel(): nothing sent, nothing received.
InitChannel ==
    /\ chan = <<>>
    /\ applied = <<>>
    /\ stale = 0

\* Editor::new, and the listener's locals before its first key.
InitInterp ==
    /\ op = "None"
    /\ mult = 1
    /\ keys = <<>>
    /\ sent = <<>>

Init ==
    /\ buffer = BufferNew
    /\ cr = 0
    /\ cc = 0
    /\ mode = "Normal"
    /\ done = FALSE
    /\ last = NoEvent
    /\ pre = Ed(BufferNew, 0, 0)
    /\ InitInterp
    /\ InitChannel

Next == \E ev \in Event : Dispatch(ev)

Spec == Init /\ [][Next]_vars

---------------------------------------------------------------------------
(* The edit handlers on every editor value. *)

\* The characters a line of the buffer can hold: those handle_write inserts.
LineChars == {c \in WriteChars : is_alphanumeric(c) \/ c = " "}

\* The lines of a text whose line breaks are "\n".
RECURSIVE TextLines(_)
TextLines(t) ==
    IF t = <<>> THEN << <<>> >>
    ELSE LET rest == TextLines(Tail(t)) IN
         IF Head(t) = "\n" THEN << <<>> >> \o rest
         ELSE << <<Head(t)>> \o Head(rest) >> \o Tail(rest)

\* Every value of Buffer.lines within the bound: at least one line, each a
\* sequence of characters.
Buffers ==
    {TextLines(t) : t \in UNION {[1..n -> LineChars \cup {"\n"}] : n \in 0..MaxText}}

\* The actions that reach an edit handler.
EditEvent == {ev \in Event : ev.type \in {"BackSpace", "Enter", "Write"}}

\* Every Editor value whose cursor lies inside its buffer.
InitAny ==
    /\ buffer \in Buffers
    /\ cr \in 0..(Len(buffer) - 1)
    /\ cc \in 0..Len(buffer[cr + 1])
    /\ mode \in Mode
    /\ done = FALSE
    /\ last = NoEvent
    /\ pre = Ed(buffer, cr, cc)
    /\ InitInterp
    /\ InitChannel

NextAny == \E ev \in EditEvent : Dispatch(ev)

SpecAny == InitAny /\ [][NextAny]_vars

---------------------------------------------------------------------------
(* Properties of the editor core. *)

\* The line the cursor was on before the last action.
PreLine == pre.lines[pre.cr + 1]

\* C1: in every state reached from Editor::new by any sequence of actions,
\* 0 <= cr < number of lines and 0 <= cc <= length of line cr.
C1_CursorInBounds ==
    /\ cr \in 0..(Len(buffer) - 1)
    /\ cc \in 0..Len(buffer[cr + 1])

\* A BackSpace at column 0 of a later row has joined two lines and left the
\* cursor inside the joined line.
C1_Witness ==
    /\ last.type = "BackSpace"
    /\ pre.cr > 0 /\ pre.cc = 0
    /\ cr = pre.cr - 1 /\ cc > 0

\* C2: in every state reached from Editor::new the buffer holds at least
\* one line.
C2_AtLeastOneLine == Len(buffer) >= 1

\* BackSpace has removed a line of a two-line buffer, and BackSpace has been
\* applied at row 0, column 0.
C2_Witness ==
    /\ last.type = "BackSpace"
    /\ \/ Len(pre.lines) = 2 /\ Len(buffer) = 1
       \/ Len(pre.lines) = 1 /\ pre.cc = 0

Min(a, b) == IF a <= b THEN a ELSE b
Max(a, b) == IF a >= b THEN a ELSE b

\* The column Word moves to from column c of line row: the index of the
\* next space on the row, or the end of the row.
WordTarget(row, c) ==
    LET spaces == {j \in (c + 1)..(Len(row) - 1) : row[j + 1] = " "}
    IN  IF spaces = {} THEN Len(row)
        ELSE CHOOSE j \in spaces : \A k \in spaces : j <= k

\* One application of a motion, as section 4.3 of the specification states it.
MoveOnce(ls, r, c, m) ==
    CASE m = "Up"    -> LET r1 == Max(r - 1, 0)
                        IN  <<r1, Min(c, Len(ls[r1 + 1]))>>
      [] m = "Down"  -> LET r1 == Min(r + 1, Len(ls) - 1)
                        IN  <<r1, Min(c, Len(ls[r1 + 1]))>>
      [] m = "Left"  -> <<r, Max(c - 1, 0)>>
      [] m = "Right" -> <<r, Min(c + 1, Len(ls[r + 1]))>>
      [] m = "Start" -> <<r, 0>>
      [] m = "End"   -> <<r, Len(ls[r + 1])>>
      [] m = "Word"  -> <<r, WordTarget(ls[r + 1], c)>>

\* n applications in sequence.
RECURSIVE MoveN(_, _, _, _, _)
MoveN(ls, r, c, m, n) ==
    IF n = 0 THEN <<r, c>>
    ELSE LET p == MoveOnce(ls, r, c, m) IN MoveN(ls, p[1], p[2], m, n - 1)

\* C6: Motion{operator: None, count: n, motion: m} moves the cursor to the
\* position m applied n times in sequence gives, and leaves the buffer
\* unchanged.
C6_MotionMovesCursor ==
    (last.type = "Motion" /\ last.op = "None")
      => /\ buffer = pre.lines
         /\ <<cr, cc>> = MoveN(pre.lines, pre.cr, pre.cc, last.motion, last.mult)

\* Position p is at or before position q.
PosLeq(p, q) == p[1] < q[1] \/ (p[1] = q[1] /\ p[2] <= q[2])

\* The lines left when the half-open range between positions p and q
\* (taken in order) is removed from ls.
RemoveRange(ls, p, q) ==
    LET lo == IF PosLeq(p, q) THEN p ELSE q
        hi == IF PosLeq(p, q) THEN q ELSE p
        joined == SubSeq(ls[lo[1] + 1], 1, lo[2])
                    \o SubSeq(ls[hi[1] + 1], hi[2] + 1, Len(ls[hi[1] + 1]))
    IN  SubSeq(ls, 1, lo[1]) \o <<joined>> \o SubSeq(ls, hi[1] + 2, Len(ls))

\* C7: Motion{operator: Delete, count, motion} removes from the buffer the
\* half-open range between the cursor before and after the motion, and
\* never leaves the buffer with zero lines.
C7_DeleteRemovesRange ==
    (last.type = "Motion" /\ last.op = "Delete")
      => /\ buffer = RemoveRange(pre.lines, <<pre.cr, pre.cc>>,
                        MoveN(pre.lines, pre.cr, pre.cc, last.motion, last.mult))
         /\ Len(buffer) >= 1

Inserted(c) ==
    IF c = "\t" THEN <<" ", " ", " ", " ">>
    ELSE IF c \in {"a", " "} THEN <<c>>
    ELSE <<>>

\* C9: Write(c) at (r, k) inserts four spaces for a tab, c itself for an
\* alphanumeric character or a space, and nothing otherwise, at column k of
\* line r; the text right of k is kept after the insertion; the column
\* advances by the number of characters inserted; the row and every other
\* line are unchanged.
C9_WriteContract ==
    last.type = "Write" =>
      /\ buffer = [pre.lines EXCEPT ![pre.cr + 1] =
                     SubSeq(PreLine, 1, pre.cc) \o Inserted(last.c)
                       \o SubSeq(PreLine, pre.cc + 1, Len(PreLine))]
      /\ cr = pre.cr
      /\ cc = pre.cc + Len(Inserted(last.c))

\* A tab has been written before the end of a line: the four spaces are
\* followed by the text that was right of the cursor.
C9_Witness ==
    /\ last.type = "Write" /\ last.c = "\t"
    /\ pre.cc < Len(PreLine)
    /\ cc = pre.cc + 4
    /\ buffer[cr + 1][cc + 1] = "a"

\* C10: Enter at (r, k) leaves the first k characters on line r, inserts the
\* rest as a new line r + 1, keeps the earlier lines, shifts the later ones
\* down by one, and moves the cursor to (r + 1, 0).
C10_EnterContract ==
    last.type = "Enter" =>
      /\ buffer = SubSeq(pre.lines, 1, pre.cr)
                    \o <<SubSeq(PreLine, 1, pre.cc),
                         SubSeq(PreLine, pre.cc + 1, Len(PreLine))>>
                    \o SubSeq(pre.lines, pre.cr + 2, Len(pre.lines))
      /\ Len(buffer) = Len(pre.lines) + 1
      /\ cr = pre.cr + 1
      /\ cc = 0

\* Enter has split a line in its middle, with lines before and after it.
C10_Witness ==
    /\ last.type = "Enter"
    /\ pre.cc > 0 /\ pre.cc < Len(PreLine)
    /\ pre.cr > 0 /\ pre.cr + 1 < Len(pre.lines)
    /\ Len(buffer) = Len(pre.lines) + 1

---------------------------------------------------------------------------
(* The key listener of event.rs. *)

\* KeyCode: Char(c) is written as the one-character string c, a named key
\* by its name.

\* The code point of a digit character.
Ord(c) ==
    CASE c = "0" -> 48 [] c = "1" -> 49 [] c = "2" -> 50 [] c = "3" -> 51
      [] c = "4" -> 52 [] c = "5" -> 53 [] c = "6" -> 54 [] c = "7" -> 55
      [] c = "8" -> 56 [] c = "9" -> 57

\* Operator::parse, whose body is todo!(): the operator a key names.
Operator_parse(code) ==
    CASE code = "d" -> "Delete"
      [] code = "y" -> "Yank"
      [] OTHER      -> "None"

\* Motion::parse, whose body is todo!(): the motion a key names. The arrow
\* keys are those handle_input_event_normal of editor.rs maps.
Motion_parse(code) ==
    CASE code = "Up"    -> "Up"
      [] code = "Down"  -> "Down"
      [] code = "Left"  -> "Left"
      [] code = "Right" -> "Right"
      [] code = "Home"  -> "Start"
      [] code = "End"   -> "End"
      [] code = "w"     -> "Word"
      [] OTHER          -> "None"

\* matches!(code, KeyCode::Char('1'..'9')): a range pattern with `..`
\* excludes its upper end.
IsCountKey(code) ==
    code \in DigitChars /\ Ord("1") <= Ord(code) /\ Ord(code) < Ord("9")

\* What a handler returns and leaves in the listener's locals.
Res(ev, o, m) == [ev |-> ev, op |-> o, mult |-> m]

MotionEvent(o, n, m) == [type |-> "Motion", op |-> o, mult |-> n, motion |-> m]

\* The key codes that are not KeyCode::Char.
NamedKeys ==
    {"Esc", "Tab", "Backspace", "Enter", "Up", "Down", "Left", "Right",
     "Home", "End"}

\* handle_input_event_insert.
handle_input_event_insert(code) ==
    CASE code = "Esc"       -> [type |-> "ChangeMode", mode |-> "Normal"]
      [] code = "Tab"       -> [type |-> "Write", c |-> "\t"]
      [] code = "Backspace" -> [type |-> "BackSpace"]
      [] code = "Enter"     -> [type |-> "Enter"]
      [] code \notin NamedKeys -> [type |-> "Write", c |-> code]
      [] OTHER              -> NoEvent

\* handle_input_event_normal without the `*mult = 1` of its last branch.
handle_input_event_normal_other_keeps_mult(code, o, m) ==
    IF code = "q" THEN Res([type |-> "Quit"], o, m)
    ELSE IF o = "None"
    THEN IF Motion_parse(code) # "None"
         THEN Res(MotionEvent("None", m, Motion_parse(code)), o, 1)
         ELSE IF code = "i"
         THEN Res([type |-> "ChangeMode", mode |-> "Insert"], o, 1)
         ELSE IF Operator_parse(code) # "None"
         THEN Res(NoEvent, Operator_parse(code), m)
         ELSE Res(NoEvent, o, m)
    ELSE IF code = "Esc" THEN Res(NoEvent, o, m)
    ELSE IF IsCountKey(code)
    THEN Res(NoEvent, o, (Ord(code) - Ord("0")) % U8)
    ELSE IF Motion_parse(code) # "None"
    THEN Res(MotionEvent(o, m, Motion_parse(code)), "None", 1)
    ELSE Res(NoEvent, "None", m)

\* handle_input_event_normal without the `*mult = 1` that follows a motion
\* resolved with an operator pending.
handle_input_event_normal_motion_keeps_mult(code, o, m) ==
    IF code = "q" THEN Res([type |-> "Quit"], o, m)
    ELSE IF o = "None"
    THEN IF Motion_parse(code) # "None"
         THEN Res(MotionEvent("None", m, Motion_parse(code)), o, 1)
         ELSE IF code = "i"
         THEN Res([type |-> "ChangeMode", mode |-> "Insert"], o, 1)
         ELSE IF Operator_parse(code) # "None"
         THEN Res(NoEvent, Operator_parse(code), m)
         ELSE Res(NoEvent, o, m)
    ELSE IF code = "Esc" THEN Res(NoEvent, o, m)
    ELSE IF IsCountKey(code)
    THEN Res(NoEvent, o, (Ord(code) - Ord("0")) % U8)
    ELSE IF Motion_parse(code) # "None"
    THEN Res(MotionEvent(o, m, Motion_parse(code)), "None", m)
    ELSE Res(NoEvent, "None", 1)

\* handle_input_event_normal(code, &mut op, &mut mult).
handle_input_event_normal(code, o, m) ==
    IF code = "q" THEN Res([type |-> "Quit"], o, m)
    ELSE IF o = "None"
    THEN IF Motion_parse(code) # "None"
         THEN Res(MotionEvent("None", m, Motion_parse(code)), o, 1)
         ELSE IF code = "i"
         THEN Res([type |-> "ChangeMode", mode |-> "Insert"], o, 1)
         ELSE IF Operator_parse(code) # "None"
         THEN Res(NoEvent, Operator_parse(code), m)
         ELSE Res(NoEvent, o, m)
    ELSE IF code = "Esc" THEN Res(NoEvent, o, m)
    ELSE IF IsCountKey(code)
    THEN Res(NoEvent, o, (Ord(code) - Ord("0")) % U8)
    ELSE IF Motion_parse(code) # "None"
    THEN Res(MotionEvent(o, m, Motion_parse(code)), "None", 1)
    ELSE Res(NoEvent, "None", 1)

\* The key codes the listener reads in the model.
KeyCodes ==
    {"q", "i", "Esc", "d", "y", "0", "1", "3", "8", "9",
     "Right", "Down", "w", "x"}

\* A ChangeMode is queued that will replace the mode the listener reads now.
StaleMode ==
    \E i \in 1..Len(chan) : chan[i].type = "ChangeMode" /\ chan[i].mode # mode

\* One turn of the loop of event_listener: read() yields a key, the handler
\* of the current mode turns it into an action, and the action is sent.
ReadKey(code) ==
    /\ Len(keys) < MaxKeys
    /\ LET r == IF mode = "Normal"
                THEN handle_input_event_normal(code, op, mult)
                ELSE Res(handle_input_event_insert(code), op, mult)
       IN  /\ op' = r.op
           /\ mult' = r.mult
           /\ sent' = IF r.ev = NoEvent THEN sent ELSE Append(sent, r.ev)
           /\ chan' = IF r.ev = NoEvent THEN chan ELSE Append(chan, r.ev)
    /\ keys' = Append(keys, code)
    /\ stale' = IF StaleMode THEN stale + 1 ELSE 0
    /\ UNCHANGED <<edvars, applied>>

NextInterp == \E code \in KeyCodes : ReadKey(code)

SpecInterp == Init /\ [][NextInterp]_vars

---------------------------------------------------------------------------
(* The listener thread and the dispatch loop together. *)

\* Receiver::recv taking the last action sent in place of the first.
RecvFrom_newest(q) == [ev |-> q[Len(q)], rest |-> SubSeq(q, 1, Len(q) - 1)]

\* Receiver::recv on a channel that holds q: the action received and the
\* actions left.
RecvFrom(q) == [ev |-> Head(q), rest |-> Tail(q)]

\* One turn of the loop of Editor::run: rx.recv() yields the oldest action
\* of the channel and handle_action applies it.
Recv ==
    /\ chan # <<>>
    /\ LET r == RecvFrom(chan) IN
       /\ Apply(r.ev)
       /\ chan' = r.rest
       /\ applied' = Append(applied, r.ev)
       /\ stale' = IF \E i \in 1..Len(r.rest) :
                        /\ r.rest[i].type = "ChangeMode"
                        /\ r.rest[i].mode # handle_action_mode(mode, r.ev)
                   THEN stale ELSE 0
    /\ UNCHANGED invars

\* The key codes the listener reads while the dispatch loop runs.
SysKeyCodes == {"q", "i", "Esc", "d", "x", "Enter", "Backspace", "Right"}

NextSys ==
    \/ \E code \in SysKeyCodes : ReadKey(code)
    \/ Recv

SpecSys == Init /\ [][NextSys]_vars

\* The dispatch loop is a thread of its own that blocks only in rx.recv():
\* while an action is queued it takes a turn.
SpecSysFair == SpecSys /\ WF_vars(Recv)

---------------------------------------------------------------------------
(* Properties of the key listener. *)

\* The keys the specification calls operator keys, digit keys and motion
\* keys.
IsOperatorKey(code) == Operator_parse(code) # "None"
IsMotionKey(code) == Motion_parse(code) # "None"
IsDigitKey(code) == code \in DigitChars \ {"0"}
DigitValue(code) == Ord(code) - 48

\* The keys read so far are an operator key followed by a digit key.
OperatorThenDigit ==
    /\ Len(keys) >= 2
    /\ IsOperatorKey(keys[1])
    /\ IsDigitKey(keys[2])

\* C4: in Normal mode operator key, digit key, Esc emits no action and
\* leaves no pending operator and count 1; a motion key read next resolves
\* to Motion with operator None and count 1.
C4_CancelClearsPending ==
    /\ (Len(keys) = 3 /\ OperatorThenDigit /\ keys[3] = "Esc")
         => (sent = <<>> /\ op = "None" /\ mult = 1)
    /\ (Len(keys) = 4 /\ OperatorThenDigit /\ keys[3] = "Esc"
          /\ IsMotionKey(keys[4]))
         => sent = <<MotionEvent("None", 1, Motion_parse(keys[4]))>>

\* C5: in Normal mode, from the empty pending state, operator key o, digit
\* key d in 1..9, motion key m emits nothing on the first two keys and
\* exactly Motion{operator: o, count: d, motion: m} on the third, and
\* leaves no pending operator and count 1.
C5_OperatorDigitMotion ==
    /\ (Len(keys) = 1 /\ IsOperatorKey(keys[1])) => sent = <<>>
    /\ (Len(keys) = 2 /\ OperatorThenDigit) => sent = <<>>
    /\ (Len(keys) = 3 /\ OperatorThenDigit /\ IsMotionKey(keys[3]))
         => /\ sent = <<MotionEvent(Operator_parse(keys[1]),
                                    DigitValue(keys[2]),
                                    Motion_parse(keys[3]))>>
            /\ op = "None"
            /\ mult = 1

\* C11: ChangeMode(m) sets the mode to m and leaves the lines and the cursor
\* unchanged (so ChangeMode(Normal) in Normal mode changes nothing); no
\* other action changes the mode; the initial mode is Normal.
C11_ChangeModeOnly ==
    /\ mode = "Normal"
    /\ [][/\ last'.type = "ChangeMode"
               => /\ mode' = last'.mode
                  /\ buffer' = buffer /\ cr' = cr /\ cc' = cc
                  /\ done' = done
          /\ last'.type # "ChangeMode" => mode' = mode]_vars

\* A ChangeMode has been applied to an editor that holds text.
C11_Witness ==
    /\ last.type = "ChangeMode"
    /\ mode = last.mode
    /\ buffer # BufferNew
    /\ buffer = pre.lines

\* The key read last.
LastKey == keys[Len(keys)]

\* C16: in Normal mode the quit key resolves to Quit whatever the pending
\* state is, and no operator is pending and the count is 1 after it.
C16_QuitDiscardsPending ==
    (keys # <<>> /\ LastKey = "q")
      => /\ sent # <<>>
         /\ sent[Len(sent)] = [type |-> "Quit"]
         /\ op = "None"
         /\ mult = 1

\* C17: from the empty pending state, digit key d, operator key o, motion
\* key m resolves to the single action Motion{operator: o, count: d,
\* motion: m}, as operator key o, digit key d, motion key m is to do.
C17_DigitBeforeOperator ==
    (Len(keys) = 3 /\ IsDigitKey(keys[1]) /\ IsOperatorKey(keys[2])
       /\ IsMotionKey(keys[3]))
      => sent = <<MotionEvent(Operator_parse(keys[2]), DigitValue(keys[1]),
                              Motion_parse(keys[3]))>>

\* The keys that are neither the quit key, the cancel key, a digit 1-9 nor
\* a motion key.
IsOtherKey(code) ==
    /\ code # "q"
    /\ code # "Esc"
    /\ ~IsDigitKey(code)
    /\ ~IsMotionKey(code)

\* C18: in Normal mode with an operator pending, a key that is neither the
\* quit key, the cancel key, a digit 1-9 nor a motion key emits no action,
\* clears the pending operator and resets the count to 1.
C18_OtherKeyCancels ==
    [][(op # "None" /\ Len(keys') = Len(keys) + 1
          /\ IsOtherKey(keys'[Len(keys')]))
         => (sent' = sent /\ op' = "None" /\ mult' = 1)]_vars

\* Operator key, digit 3, insert-mode key: nothing has been sent and the
\* pending state is empty.
C18_Witness ==
    /\ Len(keys) = 3
    /\ IsOperatorKey(keys[1]) /\ keys[2] = "3" /\ keys[3] = "i"
    /\ sent = <<>> /\ op = "None" /\ mult = 1

\* C20: whenever no operator is pending the count is 1, and every Motion
\* sent with operator None carries count 1.
C20_CountNeedsOperator ==
    /\ op = "None" => mult = 1
    /\ \A i \in 1..Len(sent) :
         (sent[i].type = "Motion" /\ sent[i].op = "None") => sent[i].mult = 1

\* A digit, then a motion: the motion is sent with count 1; and a motion
\* with operator and count 3 has been followed by one without operator.
C20_Witness ==
    \/ /\ Len(keys) = 2 /\ keys[1] = "3" /\ IsMotionKey(keys[2])
       /\ sent = <<MotionEvent("None", 1, Motion_parse(keys[2]))>>
    \/ /\ Len(sent) = 2
       /\ sent[1].type = "Motion" /\ sent[1].op # "None" /\ sent[1].mult = 3
       /\ sent[2].type = "Motion" /\ sent[2].op = "None" /\ sent[2].mult = 1


---------------------------------------------------------------------------
(* Claims about the listener thread and the dispatch loop together. *)

\* C12: with the listener and the dispatch loop running concurrently, the
\* loop applies the actions one at a time in exactly the order the listener
\* sent them: what it has applied, followed by what is still queued, is
\* what was sent, so nothing is skipped, duplicated or reordered; the
\* editor has seen the last of the applied actions, and nothing is applied
\* past the first Quit.
C12_AppliedInOrder ==
    /\ applied \o chan = sent
    /\ applied # <<>> => last = applied[Len(applied)]
    /\ \A i \in 1..Len(applied) : applied[i].type = "Quit" => i = Len(applied)

\* Two different actions have been applied while a third is still queued.
C12_Witness ==
    /\ Len(applied) >= 2
    /\ applied[1] # applied[2]
    /\ chan # <<>>
    /\ chan[1] # applied[2]

\* The mode of the last ChangeMode of the actions q, Normal if there is none.
LastMode(q) ==
    LET I == {i \in 1..Len(q) : q[i].type = "ChangeMode"}
    IN  IF I = {} THEN "Normal"
        ELSE q[CHOOSE i \in I : \A j \in I : j <= i].mode

NoChangeModeQueued == \A i \in 1..Len(chan) : chan[i].type # "ChangeMode"

\* C13 (as stated): for each ChangeMode sent, at most one later key is read
\* under the mode it is about to replace.
C13_AtMostOneStaleKey == stale <= 1

\* C13 (amended): the listener reads a key under a replaced mode only while
\* the ChangeMode that replaces it is still queued; the number of such keys
\* is bounded by the keys read, not by one.  Once no ChangeMode is queued,
\* the mode the listener reads is the mode of the last ChangeMode it sent.
C13_StaleOnlyWhileQueued ==
    /\ stale > 0 => StaleMode
    /\ stale <= Len(keys)
    /\ NoChangeModeQueued => mode = LastMode(sent)

\* Three keys were read in Normal mode, the first of them i, and only then
\* was ChangeMode(Insert) received: the two keys after i were read under the
\* replaced mode.
C13_Witness ==
    /\ Len(keys) >= 3
    /\ keys[1] = "i"
    /\ keys[2] = "x"
    /\ keys[3] = "x"
    /\ sent = <<[type |-> "ChangeMode", mode |-> "Insert"]>>
    /\ chan = <<>>
    /\ mode = "Insert"

QuitSent == \E i \in 1..Len(sent) : sent[i].type = "Quit"

\* C14: once the dispatch loop has applied Quit it receives nothing more, so
\* the buffer, the cursor and the mode never change again; and once the
\* listener has read the quit key in Normal mode (it has sent Quit), the
\* loop eventually ends, the loop being scheduled fairly.
C14_QuitEndsLoop ==
    /\ [][done => /\ done'
                  /\ buffer' = buffer /\ cr' = cr /\ cc' = cc
                  /\ mode' = mode
                  /\ applied' = applied]_vars
    /\ (QuitSent ~> done)

\* The loop has ended with a ChangeMode still queued behind the Quit that
\* would have changed the mode.
C14_Witness ==
    /\ done
    /\ last.type = "Quit"
    /\ chan # <<>>
    /\ chan[1].type = "ChangeMode"
    /\ chan[1].mode # mode

\* C15: whenever the shared mode changes value, the pending operator is
\* empty and the pending count is 1.
C15_PendingResetOnModeChange ==
    [][mode' # mode => op' = "None" /\ mult' = 1]_vars

\* C19: every action that changes the buffer is applied while the mode is
\* Insert.
C19_EditsOnlyInInsert ==
    [][buffer' # buffer => mode = "Insert" /\ mode' = "Insert"]_vars

===========================================================================
